---- MODULE Spec2Model ----
(***************************************************************************)
(* FoodScan AI backend: the two entry points of the analyze route          *)
(* (api/analyzie.py handler.do_POST / do_OPTIONS and api/main.py           *)
(* analyze_food_image), each with its normalizer of the model's reply.     *)
(*                                                                         *)
(* A text is a sequence of tokens.  The structural characters of the       *)
(* normalizer and of JSON (backtick, braces, brackets, colon, comma,       *)
(* quote, backslash, blank, newline, digits) and the letters j, s, o, n    *)
(* of the fence tag are one token per character; every other token is a    *)
(* word: a run of letters that holds none of those characters.  A text     *)
(* never ends in a word, so that dropping its last token drops one         *)
(* character.  Python's find, slicing, strip, re.search, json.loads and    *)
(* json.dumps are computed on these sequences with Python's 0-based        *)
(* indices.                                                                *)
(***************************************************************************)
EXTENDS Integers, Sequences, FiniteSets, TLC

VARIABLES
  apiKey,       \* GEMINI_API_KEY is set in the environment
  pydanticLax,  \* the installed pydantic formats a number given for a str
                \* field (version 1) instead of rejecting it (version 2)
  pc,           \* "idle", "pending" (a request waits for its handler), "done"
  request,      \* the request being served
  upstream,     \* what the remote model did for this request, if called
  response      \* the response sent for this request

vars == <<apiKey, pydanticLax, pc, request, upstream, response>>

-----------------------------------------------------------------------------
(* Characters *)

\* the backtick character (SANY reads no backtick inside a string)
BT == "BACKTICK"
QUOTE == "\""
BSLASH == "\\"
NL == "\n"
SP == " "

Whitespace == {SP, NL}

DigitChars == {"0", "1", "2", "3", "4", "5", "6", "7", "8", "9"}

DigitVal(c) ==
  CASE c = "0" -> 0 [] c = "1" -> 1 [] c = "2" -> 2 [] c = "3" -> 3
    [] c = "4" -> 4 [] c = "5" -> 5 [] c = "6" -> 6 [] c = "7" -> 7
    [] c = "8" -> 8 [] c = "9" -> 9

DigitChar(d) ==
  CASE d = 0 -> "0" [] d = 1 -> "1" [] d = 2 -> "2" [] d = 3 -> "3"
    [] d = 4 -> "4" [] d = 5 -> "5" [] d = 6 -> "6" [] d = 7 -> "7"
    [] d = 8 -> "8" [] d = 9 -> "9"

-----------------------------------------------------------------------------
(* Python str operations, 0-based *)

\* s[a:b] for 0 <= a, any b (a negative b counts from the end)
Slice(s, a, b) ==
  LET n == Len(s)
      hi0 == IF b < 0 THEN b + n ELSE b
      hi == IF hi0 < 0 THEN 0 ELSE IF hi0 > n THEN n ELSE hi0
      lo == IF a > n THEN n ELSE a
  IN IF lo >= hi THEN <<>> ELSE SubSeq(s, lo + 1, hi)

\* s.startswith(pat, i)
MatchAt(s, pat, i) ==
  /\ i + Len(pat) <= Len(s)
  /\ \A k \in 1..Len(pat) : s[i + k] = pat[k]

\* s.find(pat, start): lowest index at or after start, or -1
Find(s, pat, start) ==
  LET hits == {i \in start..(Len(s) - Len(pat)) : MatchAt(s, pat, i)}
  IN IF hits = {} THEN -1
     ELSE CHOOSE i \in hits : \A j \in hits : i <= j

\* s.rfind(pat): highest index, or -1
RFind(s, pat) ==
  LET hits == {i \in 0..(Len(s) - Len(pat)) : MatchAt(s, pat, i)}
  IN IF hits = {} THEN -1
     ELSE CHOOSE i \in hits : \A j \in hits : i >= j

\* pat in s
Contains(s, pat) == Find(s, pat, 0) # -1

\* s.strip()
Strip(s) ==
  LET keep == {i \in 1..Len(s) : s[i] \notin Whitespace}
  IN IF keep = {} THEN <<>>
     ELSE SubSeq(s, CHOOSE i \in keep : \A j \in keep : i <= j,
                    CHOOSE i \in keep : \A j \in keep : i >= j)

\* a lazy search, as r'\{.*?\}' would do it: from the first { to the first }
\* after it
ReBraceSearchLazy(s) ==
  LET open == Find(s, <<"{">>, 0)
      close == IF open = -1 THEN -1 ELSE Find(s, <<"}">>, open)
  IN IF open # -1 /\ close # -1
       THEN [found |-> TRUE, group |-> Slice(s, open, close + 1)]
       ELSE [found |-> FALSE, group |-> <<>>]

\* re.search(r'\{.*\}', s, re.DOTALL): the leftmost, greedy match
ReBraceSearch(s) ==
  LET open == Find(s, <<"{">>, 0)
      close == RFind(s, <<"}">>)
  IN IF open # -1 /\ close > open
       THEN [found |-> TRUE, group |-> Slice(s, open, close + 1)]
       ELSE [found |-> FALSE, group |-> <<>>]

-----------------------------------------------------------------------------
(* JSON values (Python objects of the json module) *)

JStr(s) == [t |-> "str", s |-> s]
JNum(n) == [t |-> "num", n |-> n]
JArr(a) == [t |-> "arr", a |-> a]
JObj(m) == [t |-> "obj", m |-> m]
JNull == [t |-> "null"]

\* the members of a dict keep insertion order; a repeated key keeps its
\* place and takes the later value
DictPut(m, k, v) ==
  IF \E i \in 1..Len(m) : m[i].k = k
    THEN [i \in 1..Len(m) |-> IF m[i].k = k THEN [k |-> k, v |-> v] ELSE m[i]]
    ELSE Append(m, [k |-> k, v |-> v])

DictHas(d, k) == \E i \in 1..Len(d.m) : d.m[i].k = k

\* dict.get(k, default)
DictGet(d, k, default) ==
  IF DictHas(d, k)
    THEN d.m[CHOOSE i \in 1..Len(d.m) : d.m[i].k = k].v
    ELSE default

DictKeys(d) == {d.m[i].k : i \in 1..Len(d.m)}

-----------------------------------------------------------------------------
(* json.loads *)

Fail == [ok |-> FALSE, val |-> JNull, pos |-> 0]
Ok(v, p) == [ok |-> TRUE, val |-> v, pos |-> p]

\* the first position at or after i (1-based) that holds no whitespace
SkipWs(s, i) ==
  CHOOSE j \in i..(Len(s) + 1) :
    /\ j = Len(s) + 1 \/ s[j] \notin Whitespace
    /\ \A k \in i..(j - 1) : s[k] \in Whitespace

RECURSIVE Concat(_, _, _)
\* f[lo] \o ... \o f[hi] for a sequence f of sequences
Concat(f, lo, hi) ==
  IF lo > hi THEN <<>>
  ELSE IF lo = hi THEN f[lo]
  ELSE LET mid == (lo + hi) \div 2
       IN Concat(f, lo, mid) \o Concat(f, mid + 1, hi)

RECURSIVE BackslashRun(_, _, _)
\* how many backslashes in a row end at position k, none before position lo
BackslashRun(s, lo, k) ==
  IF k < lo \/ s[k] # BSLASH THEN 0 ELSE 1 + BackslashRun(s, lo, k - 1)

\* scanstring: the string whose opening quote is just before position i.
\* It ends at the first quote that no backslash escapes.  Strict: a raw
\* newline inside the string, and an escape other than \" \\ \n, are errors
\* (the other escapes of JSON need characters this alphabet lacks).
ScanString(s, i) ==
  LET Escaped(k) == BackslashRun(s, i, k - 1) % 2 = 1
      closers == {k \in i..Len(s) : s[k] = QUOTE /\ ~Escaped(k)}
  IN IF closers = {} THEN Fail
     ELSE
       LET end == CHOOSE k \in closers : \A q \in closers : k <= q
           bad == {k \in i..(end - 1) :
                     \/ s[k] = NL
                     \/ Escaped(k) /\ s[k] \notin {QUOTE, BSLASH, "n"}}
           piece == [k \in 1..(end - i) |->
                       LET c == s[i + k - 1]
                       IN IF Escaped(i + k - 1)
                            THEN <<IF c = "n" THEN NL ELSE c>>
                          ELSE IF c = BSLASH THEN <<>>
                          ELSE <<c>>]
       IN IF bad # {} THEN Fail
          ELSE Ok(JStr(Concat(piece, 1, end - i)), end + 1)

RECURSIVE DigitsValue(_)
DigitsValue(ds) ==
  IF ds = <<>> THEN 0
  ELSE 10 * DigitsValue(SubSeq(ds, 1, Len(ds) - 1)) + DigitVal(ds[Len(ds)])

\* NUMBER_RE (0|[1-9]\d*) at position i, which holds a digit
ScanNumber(s, i) ==
  LET stop == CHOOSE j \in (i + 1)..(Len(s) + 1) :
                /\ j = Len(s) + 1 \/ s[j] \notin DigitChars
                /\ \A k \in (i + 1)..(j - 1) : s[k] \in DigitChars
      end == IF s[i] = "0" THEN i + 1 ELSE stop
  IN Ok(JNum(DigitsValue(SubSeq(s, i, end - 1))), end)

NullLiteral == <<"n", "u", "l", "l">>

RECURSIVE ParseValue(_, _), ParseMembers(_, _, _), ParseElements(_, _, _)

\* scan_once at position i
ParseValue(s, i) ==
  IF i > Len(s) THEN Fail
  ELSE IF s[i] = QUOTE THEN ScanString(s, i + 1)
  ELSE IF s[i] = "{" THEN
    LET j == SkipWs(s, i + 1)
    IN IF j > Len(s) THEN Fail
       ELSE IF s[j] = "}" THEN Ok(JObj(<<>>), j + 1)
       ELSE ParseMembers(s, j, <<>>)
  ELSE IF s[i] = "[" THEN
    LET j == SkipWs(s, i + 1)
    IN IF j > Len(s) THEN Fail
       ELSE IF s[j] = "]" THEN Ok(JArr(<<>>), j + 1)
       ELSE ParseElements(s, j, <<>>)
  ELSE IF MatchAt(s, NullLiteral, i - 1) THEN Ok(JNull, i + Len(NullLiteral))
  ELSE IF s[i] \in DigitChars THEN ScanNumber(s, i)
  ELSE Fail

\* JSONObject's loop: position i must hold the quote opening a key
ParseMembers(s, i, m) ==
  IF i > Len(s) \/ s[i] # QUOTE THEN Fail
  ELSE
    LET key == ScanString(s, i + 1)
    IN IF ~key.ok THEN Fail
       ELSE
         LET c == SkipWs(s, key.pos)
         IN IF c > Len(s) \/ s[c] # ":" THEN Fail
            ELSE
              LET v == ParseValue(s, SkipWs(s, c + 1))
              IN IF ~v.ok THEN Fail
                 ELSE
                   LET d == SkipWs(s, v.pos)
                       m2 == DictPut(m, key.val.s, v.val)
                   IN IF d > Len(s) THEN Fail
                      ELSE IF s[d] = "}" THEN Ok(JObj(m2), d + 1)
                      ELSE IF s[d] = "," THEN ParseMembers(s, SkipWs(s, d + 1), m2)
                      ELSE Fail

\* JSONArray's loop
ParseElements(s, i, a) ==
  LET v == ParseValue(s, i)
  IN IF ~v.ok THEN Fail
     ELSE
       LET d == SkipWs(s, v.pos)
           a2 == Append(a, v.val)
       IN IF d > Len(s) THEN Fail
          ELSE IF s[d] = "]" THEN Ok(JArr(a2), d + 1)
          ELSE IF s[d] = "," THEN ParseElements(s, SkipWs(s, d + 1), a2)
          ELSE Fail

\* json.loads(s): ok = FALSE stands for json.JSONDecodeError
JsonLoads(s) ==
  LET v == ParseValue(s, SkipWs(s, 1))
  IN IF v.ok /\ SkipWs(s, v.pos) = Len(s) + 1 THEN v ELSE Fail

-----------------------------------------------------------------------------
(* json.dumps, default separators *)

EscapeStr(s) ==
  Concat([k \in 1..Len(s) |->
            CASE s[k] = QUOTE -> <<BSLASH, QUOTE>>
              [] s[k] = BSLASH -> <<BSLASH, BSLASH>>
              [] s[k] = NL -> <<BSLASH, "n">>
              [] OTHER -> <<s[k]>>], 1, Len(s))

RECURSIVE DigitsOf(_)
DigitsOf(n) ==
  IF n < 10 THEN <<DigitChar(n)>>
  ELSE Append(DigitsOf(n \div 10), DigitChar(n % 10))

RECURSIVE JsonDumps(_), DumpMembers(_), DumpElements(_)

JsonDumps(v) ==
  CASE v.t = "str" -> <<QUOTE>> \o EscapeStr(v.s) \o <<QUOTE>>
    [] v.t = "num" -> DigitsOf(v.n)
    [] v.t = "null" -> NullLiteral
    [] v.t = "arr" -> <<"[">> \o DumpElements(v.a) \o <<"]">>
    [] v.t = "obj" -> <<"{">> \o DumpMembers(v.m) \o <<"}">>

DumpMembers(m) ==
  IF m = <<>> THEN <<>>
  ELSE JsonDumps(JStr(Head(m).k)) \o <<":", SP>> \o JsonDumps(Head(m).v)
       \o (IF Len(m) > 1 THEN <<",", SP>> \o DumpMembers(Tail(m)) ELSE <<>>)

DumpElements(a) ==
  IF a = <<>> THEN <<>>
  ELSE JsonDumps(Head(a))
       \o (IF Len(a) > 1 THEN <<",", SP>> \o DumpElements(Tail(a)) ELSE <<>>)

-----------------------------------------------------------------------------
(* The response normalizer *)

FenceOpen == <<BT, BT, BT, "j", "s", "o", "n">>
Fence == <<BT, BT, BT>>
FenceTagLen == 7

K_food_name == <<"food_name">>
K_freshness_level == <<"freshness_level">>
K_freshness_score == <<"freshness_score">>
K_estimated_calories == <<"estimated_calories">>
K_nutrition_summary == <<"nutrition_summary">>
K_analysis_summary == <<"analysis_summary">>
K_recommendations == <<"recommendations">>
K_protein == <<"protein">>
K_carbs == <<"carbs">>
K_fat == <<"fat">>
K_fiber == <<"fiber">>

Pair(k, v) == [k |-> k, v |-> v]

NA == JStr(<<"N/A">>)

DefaultNutrition ==
  JObj(<<Pair(K_protein, NA), Pair(K_carbs, NA), Pair(K_fat, NA), Pair(K_fiber, NA)>>)

DefaultFoodName == JStr(<<"Unknown", SP, "food">>)
DefaultFreshnessLevel == JStr(<<"Cannot", SP, "determine">>)
DefaultFreshnessScore == 50
DefaultCalories == 0
DefaultRecommendations ==
  JArr(<<JStr(<<"Try", SP, "taking", SP, "a", SP, "photo", SP, "with", SP,
                "better", SP, "lighting">>)>>)

\* main.py: the JSON candidate of a reply text
json_str(response_text) ==
  IF Contains(response_text, FenceOpen)
    THEN LET json_start == Find(response_text, FenceOpen, 0) + FenceTagLen
             json_end == Find(response_text, Fence, json_start)
         IN Strip(Slice(response_text, json_start, json_end))
    ELSE LET json_match == ReBraceSearch(response_text)
         IN IF json_match.found THEN json_match.group ELSE response_text

\* main.py: the record returned when json.loads raises JSONDecodeError
FallbackResponse(response_text) ==
  JObj(<<Pair(K_food_name, DefaultFoodName),
         Pair(K_freshness_level, DefaultFreshnessLevel),
         Pair(K_freshness_score, JNum(DefaultFreshnessScore)),
         Pair(K_estimated_calories, JNum(DefaultCalories)),
         Pair(K_nutrition_summary, DefaultNutrition),
         Pair(K_analysis_summary, JStr(response_text)),
         Pair(K_recommendations, DefaultRecommendations)>>)

\* main.py: the record built from a parsed dict
default_response(result, response_text) ==
  JObj(<<Pair(K_food_name, DictGet(result, K_food_name, DefaultFoodName)),
         Pair(K_freshness_level,
              DictGet(result, K_freshness_level, DefaultFreshnessLevel)),
         Pair(K_freshness_score,
              DictGet(result, K_freshness_score, JNum(DefaultFreshnessScore))),
         Pair(K_estimated_calories,
              DictGet(result, K_estimated_calories, JNum(DefaultCalories))),
         Pair(K_nutrition_summary,
              DictGet(result, K_nutrition_summary, DefaultNutrition)),
         Pair(K_analysis_summary,
              DictGet(result, K_analysis_summary, JStr(response_text))),
         Pair(K_recommendations,
              DictGet(result, K_recommendations, DefaultRecommendations))>>)

\* main.py parse_gemini_response: exc names the exception that leaves the
\* function ("none": it returns val).  result.get on a parsed value that is
\* no dict raises AttributeError, which except json.JSONDecodeError lets by.
parse_gemini_response(response_text) ==
  LET result == JsonLoads(json_str(response_text))
  IN IF ~result.ok
       THEN [exc |-> "none", val |-> FallbackResponse(response_text)]
     ELSE IF result.val.t # "obj"
       THEN [exc |-> "AttributeError", val |-> JNull]
     ELSE [exc |-> "none", val |-> default_response(result.val, response_text)]

-----------------------------------------------------------------------------
(* main.py: the declared response schema (pydantic) *)

IsNumeric(s) == s # <<>> /\ \A i \in 1..Len(s) : s[i] \in DigitChars

\* a str field: pydantic 1 also takes a number and formats it
StrOk(v, lax) == v.t = "str" \/ (lax /\ v.t = "num")
StrOf(v) == IF v.t = "num" THEN JStr(DigitsOf(v.n)) ELSE v

\* an int field: a number, or a string of digits, which is converted
IntOk(v) == v.t = "num" \/ (v.t = "str" /\ IsNumeric(v.s))
IntOf(v) == IF v.t = "str" THEN JNum(DigitsValue(v.s)) ELSE v

NutritionKeys == <<K_protein, K_carbs, K_fat, K_fiber>>

NutritionInfoOk(v, lax) ==
  /\ v.t = "obj"
  /\ \A i \in 1..4 : DictHas(v, NutritionKeys[i])
                     /\ StrOk(DictGet(v, NutritionKeys[i], JNull), lax)

NutritionInfo(v) ==
  JObj([i \in 1..4 |->
          Pair(NutritionKeys[i], StrOf(DictGet(v, NutritionKeys[i], JNull)))])

RecommendationsOk(v, lax) ==
  v.t = "arr" /\ \A i \in 1..Len(v.a) : StrOk(v.a[i], lax)

\* AnalysisResponse(**result) for a dict holding the seven keys: ok = FALSE
\* stands for pydantic's ValidationError, a ValueError
AnalysisResponse(result, lax) ==
  LET f(k) == DictGet(result, k, JNull)
      ok == /\ StrOk(f(K_food_name), lax)
            /\ StrOk(f(K_freshness_level), lax)
            /\ IntOk(f(K_freshness_score))
            /\ IntOk(f(K_estimated_calories))
            /\ NutritionInfoOk(f(K_nutrition_summary), lax)
            /\ StrOk(f(K_analysis_summary), lax)
            /\ RecommendationsOk(f(K_recommendations), lax)
  IN IF ~ok THEN [ok |-> FALSE, val |-> JNull]
     ELSE [ok |-> TRUE,
           val |-> JObj(<<
             Pair(K_food_name, StrOf(f(K_food_name))),
             Pair(K_freshness_level, StrOf(f(K_freshness_level))),
             Pair(K_freshness_score, IntOf(f(K_freshness_score))),
             Pair(K_estimated_calories, IntOf(f(K_estimated_calories))),
             Pair(K_nutrition_summary, NutritionInfo(f(K_nutrition_summary))),
             Pair(K_analysis_summary, StrOf(f(K_analysis_summary))),
             Pair(K_recommendations,
                  JArr([i \in 1..Len(f(K_recommendations).a) |->
                          StrOf(f(K_recommendations).a[i])]))>>)]

-----------------------------------------------------------------------------
(* Requests, the remote model, responses *)

\* An image string is the sequence of its comma-separated parts.  A part is
\* "img" (base64 of a readable image), "junk" (base64 of other bytes),
\* "bad" (base64.b64decode raises) or "empty" (the empty string).
PartKinds == {"img", "junk", "bad", "empty"}
MaxParts == 2

Images == UNION {[1..n -> PartKinds] : n \in 1..MaxParts}

\* body: "malformed" (no JSON), "no_image" (a JSON object without the image
\* key) or "image" (a JSON object whose image key holds the string image)
Requests ==
  {[handler |-> h, method |-> "POST", body |-> "image", image |-> im] :
     h \in {"analyzie", "main"}, im \in Images}
  \cup {[handler |-> h, method |-> "POST", body |-> b, image |-> <<>>] :
     h \in {"analyzie", "main"}, b \in {"malformed", "no_image"}}
  \cup {[handler |-> "analyzie", method |-> "OPTIONS", body |-> "malformed",
         image |-> <<>>]}

NoRequest == [handler |-> "none", method |-> "none", body |-> "malformed",
              image |-> <<>>]

\* What model.generate_content and response.text do: hand back a text, or
\* raise; ValueError is what the SDK raises for a response without text.
NotCalled == [kind |-> "not_called", exc |-> "none", text |-> <<>>]
Replied(t) == [kind |-> "text", exc |-> "none", text |-> t]
Raised(e) == [kind |-> "raises", exc |-> e, text |-> <<>>]

ContentTypeJson == <<"Content-type", "application/json">>
AllowOrigin == <<"Access-Control-Allow-Origin", "*">>
AllowMethods == <<"Access-Control-Allow-Methods", "POST, OPTIONS">>
AllowHeaders == <<"Access-Control-Allow-Headers", "Content-Type">>

NoBody == [t |-> "none"]
NoResponse == [status |-> 0, headers |-> {}, body |-> NoBody]

Response(status, headers, body) ==
  [status |-> status, headers |-> headers, body |-> body]

K_error == <<"error">>
K_detail == <<"detail">>

ErrorBody(msg) == JObj(<<Pair(K_error, JStr(<<msg>>))>>)
DetailBody(msg) == JObj(<<Pair(K_detail, JStr(<<msg>>))>>)

-----------------------------------------------------------------------------
(* api/analyzie.py *)

\* the fallback of do_POST when json.loads raises JSONDecodeError
AzFallback(response_text) ==
  JObj(<<Pair(K_food_name, JStr(<<"Unknown">>)),
         Pair(K_freshness_level,
              JStr(<<"tidak", SP, "dapat", SP, "ditentukan">>)),
         Pair(K_freshness_score, JNum(50)),
         Pair(K_estimated_calories, JNum(0)),
         Pair(K_nutrition_summary, DefaultNutrition),
         Pair(K_analysis_summary, JStr(response_text)),
         Pair(K_recommendations,
              JArr(<<JStr(<<"Coba", SP, "ambil", SP, "foto", SP, "dengan", SP,
                            "pencahayaan", SP, "lebih", SP, "baik">>)>>))>>)

\* do_POST: the JSON candidate of a reply text
AzJsonStr(response_text) ==
  IF Contains(response_text, FenceOpen)
    THEN LET json_start == Find(response_text, FenceOpen, 0) + 7
             json_end == Find(response_text, Fence, json_start)
         IN Strip(Slice(response_text, json_start, json_end))
    ELSE LET json_match == ReBraceSearch(response_text)
         IN IF json_match.found THEN json_match.group ELSE response_text

\* do_POST: result, the value written as the body of the 200 response
AzResult(response_text) ==
  LET result == JsonLoads(AzJsonStr(response_text))
  IN IF result.ok THEN result.val ELSE AzFallback(response_text)

\* the except Exception clause of do_POST
AzFault(e) == Response(500, {ContentTypeJson, AllowOrigin}, ErrorBody(e))

\* do_POST from the body to the remote call: done = TRUE with the
\* response sent before any remote call, else the handler goes on
AzBeforeCall(req, key) ==
  IF req.body = "malformed"
    THEN [done |-> TRUE, resp |-> AzFault("JSONDecodeError")]
  ELSE IF req.body = "no_image" \/ req.image = <<"empty">>
    THEN [done |-> TRUE,
          resp |-> Response(400, {ContentTypeJson},
                            ErrorBody("No image data provided"))]
  ELSE IF ~key
    THEN [done |-> TRUE,
          resp |-> Response(500, {ContentTypeJson},
                            ErrorBody("Gemini API key not configured"))]
  ELSE IF Len(req.image) < 2
    THEN [done |-> TRUE, resp |-> AzFault("IndexError")]
  ELSE IF req.image[2] = "bad"
    THEN [done |-> TRUE, resp |-> AzFault("binascii.Error")]
  ELSE [done |-> FALSE, resp |-> NoResponse]

\* do_POST after the remote call
AzAfterCall(outcome) ==
  IF outcome.kind = "raises" THEN AzFault(outcome.exc)
  ELSE Response(200, {ContentTypeJson, AllowOrigin, AllowMethods, AllowHeaders},
                AzResult(outcome.text))

-----------------------------------------------------------------------------
(* api/main.py *)

\* the headers CORSMiddleware(allow_origins=["*"]) puts on the response to a
\* request that carries an Origin, as a browser's does
MainHeaders == {ContentTypeJson, AllowOrigin}

\* raise HTTPException(status_code, detail)
HTTPException(status_code, detail) ==
  Response(status_code, MainHeaders, DetailBody(detail))

\* configure_gemini: raises ValueError without the key
configure_gemini(key) == IF key THEN "ok" ELSE "ValueError"

\* process_image: the part after the first comma, if there is a comma, is
\* decoded and opened; every failure leaves as ValueError
process_image(image_data) ==
  LET data == IF Len(image_data) > 1 THEN image_data[2] ELSE image_data[1]
  IN IF data = "img" THEN "ok" ELSE "ValueError"

\* analyze_food_image up to the remote call.  A body that does not fit
\* ImageAnalysisRequest is answered 422 by the framework.
MainBeforeCall(req, key) ==
  IF req.body # "image"
    THEN [done |-> TRUE,
          resp |-> Response(422, MainHeaders, DetailBody("Field required"))]
  ELSE IF configure_gemini(key) = "ValueError"
    THEN [done |-> TRUE,
          resp |-> HTTPException(400,
                     "GEMINI_API_KEY environment variable is not set")]
  ELSE IF process_image(req.image) = "ValueError"
    THEN [done |-> TRUE, resp |-> HTTPException(400, "Error processing image")]
  ELSE [done |-> FALSE, resp |-> NoResponse]

\* analyze_food_image after the remote call
MainAfterCall(outcome, lax) ==
  IF outcome.kind = "raises"
    THEN IF outcome.exc = "ValueError"
           THEN HTTPException(400, outcome.exc)
           ELSE HTTPException(500, "Error analyzing image")
  ELSE
    LET result == parse_gemini_response(outcome.text)
    IN IF result.exc # "none"
         THEN HTTPException(500, "Error analyzing image")
       ELSE
         LET model == AnalysisResponse(result.val, lax)
         IN IF ~model.ok
              THEN HTTPException(400, "ValidationError")
              ELSE Response(200, MainHeaders, model.val)

-----------------------------------------------------------------------------
(* Reply texts of the remote model *)

Lit(w) == <<QUOTE>> \o w \o <<QUOTE>>
Member(k, v) == Lit(k) \o <<":">> \o v

ScenarioObject ==
  <<"{">> \o Member(K_food_name, Lit(<<"Apple">>)) \o <<",">>
  \o Member(K_freshness_score, <<"9", "0">>) \o <<"}">>

FullObject ==
  <<"{">> \o Member(K_food_name, Lit(<<"Apple">>)) \o <<",", SP>>
  \o Member(K_freshness_level, Lit(<<"segar">>)) \o <<",", SP>>
  \o Member(K_freshness_score, <<"8", "5">>) \o <<",", SP>>
  \o Member(K_estimated_calories, <<"2", "5", "0">>) \o <<",", NL>>
  \o Member(K_nutrition_summary,
       <<"{">> \o Member(K_protein, Lit(<<"15g">>)) \o <<",">>
       \o Member(K_carbs, Lit(<<"30g">>)) \o <<",">>
       \o Member(K_fat, Lit(<<"8g">>)) \o <<",">>
       \o Member(K_fiber, Lit(<<"3g">>)) \o <<"}">>) \o <<",", SP>>
  \o Member(K_analysis_summary, Lit(<<"ringkasan">>)) \o <<",", SP>>
  \o Member(K_recommendations,
       <<"[">> \o Lit(<<"satu">>) \o <<",", SP>> \o Lit(<<"dua">>) \o <<"]">>)
  \o <<"}">>

\* the middle of a reply: objects (complete, partial, wrongly typed, empty),
\* JSON that is no object, malformed JSON, prose, nothing
Middles ==
  { ScenarioObject,
    FullObject,
    <<"{">> \o Member(K_freshness_score, Lit(<<"high">>)) \o <<"}">>,
    <<"{">> \o Member(K_food_name, <<"7">>) \o <<"}">>,
    <<"{">> \o Member(K_analysis_summary, Lit(FenceOpen)) \o <<"}">>,
    <<"{", "}">>,
    <<"4", "2">>,
    <<"[", "7", "]">>,
    Lit(<<"Apple">>),
    NullLiteral,
    <<"{">> \o Member(K_food_name, Lit(<<"Apple">>)),
    <<"{">> \o Member(K_analysis_summary,
                      Lit(<<"a", BSLASH, QUOTE, "b", BSLASH, BSLASH,
                            BSLASH, "n">>)) \o <<"}">>,
    <<"see", SP, QUOTE, "C:", BSLASH, "dir", QUOTE, SP, "{", "x", "}">>,
    <<"I", SP, "could", SP, "not", SP, "analyze", SP, "this", SP, "image", ".">>,
    <<>> }

Befores == { <<>>, <<"Here", SP, "it", SP, "is:", SP>>, FenceOpen,
             FenceOpen \o <<NL>> }

Afters == { <<>>, <<NL>> \o Fence, Fence, <<SP, "O", "K">> }

ReplyTexts == {b \o m \o a : b \in Befores, m \in Middles, a \in Afters}

Outcomes ==
  {Replied(t) : t \in ReplyTexts} \cup {Raised("ValueError"), Raised("Exception")}

-----------------------------------------------------------------------------
(* The service *)

Init ==
  /\ apiKey \in BOOLEAN
  /\ pydanticLax \in BOOLEAN
  /\ pc = "idle"
  /\ request = NoRequest
  /\ upstream = NotCalled
  /\ response = NoResponse

\* a client sends a request to one of the two entry points
SendRequest(req) ==
  /\ pc = "idle"
  /\ pc' = "pending"
  /\ request' = req
  /\ upstream' = NotCalled
  /\ response' = NoResponse
  /\ UNCHANGED <<apiKey, pydanticLax>>

\* api/analyzie.py handler.do_POST
do_POST(outcome) ==
  /\ pc = "pending"
  /\ request.handler = "analyzie"
  /\ request.method = "POST"
  /\ LET before == AzBeforeCall(request, apiKey)
     IN IF before.done
          THEN /\ response' = before.resp
               /\ upstream' = NotCalled
          ELSE /\ response' = AzAfterCall(outcome)
               /\ upstream' = outcome
  /\ pc' = "done"
  /\ UNCHANGED <<apiKey, pydanticLax, request>>

\* api/analyzie.py handler.do_OPTIONS
do_OPTIONS ==
  /\ pc = "pending"
  /\ request.handler = "analyzie"
  /\ request.method = "OPTIONS"
  /\ response' = Response(200, {AllowOrigin, AllowMethods, AllowHeaders}, NoBody)
  /\ pc' = "done"
  /\ UNCHANGED <<apiKey, pydanticLax, request, upstream>>

\* api/main.py analyze_food_image
analyze_food_image(outcome) ==
  /\ pc = "pending"
  /\ request.handler = "main"
  /\ request.method = "POST"
  /\ LET before == MainBeforeCall(request, apiKey)
     IN IF before.done
          THEN /\ response' = before.resp
               /\ upstream' = NotCalled
          ELSE /\ response' = MainAfterCall(outcome, pydanticLax)
               /\ upstream' = outcome
  /\ pc' = "done"
  /\ UNCHANGED <<apiKey, pydanticLax, request>>

\* the response has been sent and the request is over: nothing of it is kept
Finish ==
  /\ pc = "done"
  /\ pc' = "idle"
  /\ request' = NoRequest
  /\ upstream' = NotCalled
  /\ response' = NoResponse
  /\ UNCHANGED <<apiKey, pydanticLax>>

Next ==
  \/ \E req \in Requests : SendRequest(req)
  \/ \E outcome \in Outcomes : do_POST(outcome)
  \/ do_OPTIONS
  \/ \E outcome \in Outcomes : analyze_food_image(outcome)
  \/ Finish

Spec == Init /\ [][Next]_vars

-----------------------------------------------------------------------------
(* What the specification states, in its own terms *)

\* the request now in request has been answered by response
Answered == pc = "done"

AnsweredPost == Answered /\ request.method = "POST"

\* the remote model was called for this request and replied with a text
GotReply == Answered /\ upstream.kind = "text"

SevenKeys ==
  {K_food_name, K_freshness_level, K_freshness_score, K_estimated_calories,
   K_nutrition_summary, K_analysis_summary, K_recommendations}

\* the default table of the specification
SpecDefault(k) ==
  CASE k = K_food_name -> JStr(<<"Unknown", SP, "food">>)
    [] k = K_freshness_level -> JStr(<<"Cannot", SP, "determine">>)
    [] k = K_freshness_score -> JNum(50)
    [] k = K_estimated_calories -> JNum(0)
    [] k = K_nutrition_summary ->
         JObj(<<Pair(K_protein, JStr(<<"N/A">>)), Pair(K_carbs, JStr(<<"N/A">>)),
                Pair(K_fat, JStr(<<"N/A">>)), Pair(K_fiber, JStr(<<"N/A">>))>>)
    [] k = K_recommendations ->
         JArr(<<JStr(<<"Try", SP, "taking", SP, "a", SP, "photo", SP, "with",
                       SP, "better", SP, "lighting">>)>>)

\* an AnalysisResult: the seven fields, each of its declared type
IsAnalysisResult(b) ==
  /\ b.t = "obj"
  /\ DictKeys(b) = SevenKeys
  /\ DictGet(b, K_food_name, JNull).t = "str"
  /\ DictGet(b, K_freshness_level, JNull).t = "str"
  /\ DictGet(b, K_freshness_score, JNull).t = "num"
  /\ DictGet(b, K_estimated_calories, JNull).t = "num"
  /\ LET n == DictGet(b, K_nutrition_summary, JNull)
     IN /\ n.t = "obj"
        /\ DictKeys(n) = {K_protein, K_carbs, K_fat, K_fiber}
        /\ \A k \in DictKeys(n) : DictGet(n, k, JNull).t = "str"
  /\ DictGet(b, K_analysis_summary, JNull).t = "str"
  /\ LET r == DictGet(b, K_recommendations, JNull)
     IN r.t = "arr" /\ \A i \in 1..Len(r.a) : r.a[i].t = "str"

\* an error envelope: one field holding a message.  The field is "error";
\* "detail", the name the framework of main.py gives it, is let pass.
IsErrorObject(b) ==
  /\ b.t = "obj"
  /\ Len(b.m) = 1
  /\ b.m[1].k \in {K_error, K_detail}
  /\ b.m[1].v.t = "str"

\* what the normalizer of the entry point in request makes of a reply text
Normalized(t) ==
  IF request.handler = "main" THEN parse_gemini_response(t)
  ELSE [exc |-> "none", val |-> AzResult(t)]

\* the JSON candidate the entry point in request takes from a reply text
Candidate(t) == IF request.handler = "main" THEN json_str(t) ELSE AzJsonStr(t)

\* C1: every response to a POST on the analyze route has a body that is a
\* complete, type-conformant AnalysisResult or a single-field error object;
\* a partial record is never returned.
C1_BodyIsResultOrError ==
  AnsweredPost =>
    IsAnalysisResult(response.body) \/ IsErrorObject(response.body)

\* C2: when the remote model returned some text (the image was accepted and
\* the credential configured), the answer is 200, whatever the text.
C2_ReplyAlwaysAnswered200 ==
  GotReply => response.status = 200

\* C3: for a reply text whose candidate does not parse as a JSON record, the
\* normalizer returns, without raising, the default record of the
\* specification with analysis_summary equal to the raw text.
C3_FallbackIsDefaultRecord ==
  GotReply =>
    LET t == upstream.text
        parsed == JsonLoads(Candidate(t))
        out == Normalized(t)
    IN (~parsed.ok \/ parsed.val.t # "obj") =>
         /\ out.exc = "none"
         /\ out.val.t = "obj"
         /\ DictKeys(out.val) = SevenKeys
         /\ \A k \in SevenKeys \ {K_analysis_summary} :
              DictGet(out.val, k, JNull) = SpecDefault(k)
         /\ DictGet(out.val, K_analysis_summary, JNull) = JStr(t)

\* the block between the first json fence of t and its closing fence
FencedBlock(t) ==
  LET a == Find(t, FenceOpen, 0) + Len(FenceOpen)
  IN Slice(t, a, Find(t, Fence, a))

HasClosedFence(t) ==
  /\ Contains(t, FenceOpen)
  /\ Find(t, Fence, Find(t, FenceOpen, 0) + Len(FenceOpen)) # -1

\* C4: for a reply text holding a JSON-fenced block with a valid JSON record,
\* the normalizer output has the seven fields: each field present in the
\* block copied unchanged, each absent one set to its fixed default
\* (analysis_summary has no fixed default, so its value is left open here).
C4_FencedBlockWithDefaults ==
  GotReply =>
    LET t == upstream.text
        block == JsonLoads(FencedBlock(t))
        out == Normalized(t)
    IN (HasClosedFence(t) /\ block.ok /\ block.val.t = "obj") =>
         /\ out.exc = "none"
         /\ out.val.t = "obj"
         /\ DictKeys(out.val) = SevenKeys
         /\ \A k \in SevenKeys :
              IF DictHas(block.val, k)
                THEN DictGet(out.val, k, JNull) = DictGet(block.val, k, JNull)
                ELSE k # K_analysis_summary =>
                       DictGet(out.val, k, JNull) = SpecDefault(k)

\* no part of the image string is the base64 of a readable image
UnparseableImage ==
  /\ request.body = "image"
  /\ \A i \in 1..Len(request.image) : request.image[i] # "img"

\* C5: with the credential configured, a POST whose image is missing or
\* unparseable is answered with a client error (400; 422, the framework's
\* status for a body without the field, is let pass), never with 500.
C5_BadImageIsClientError ==
  (AnsweredPost /\ apiKey /\ (request.body = "no_image" \/ UnparseableImage))
    => response.status \in {400, 422}

\* C6: without the credential every analyze call that carries an image
\* string is answered 500, and the remote model is not called.
C6_MissingKeyIs500 ==
  (AnsweredPost /\ ~apiKey /\ request.body = "image"
     /\ request.image # <<"empty">>)
    => response.status = 500 /\ upstream = NotCalled

\* C7: whenever the remote model call fails, the answer is 500 with an
\* error body.
C7_UpstreamFailureIs500 ==
  (Answered /\ upstream.kind = "raises")
    => response.status = 500 /\ IsErrorObject(response.body)

\* C8: every response on the analyze route carries
\* Access-Control-Allow-Origin: *, and the preflight response also the
\* allowed methods and headers.
C8_EveryResponseAllowsOrigin ==
  Answered =>
    /\ AllowOrigin \in response.headers
    /\ request.method = "OPTIONS" =>
         {AllowMethods, AllowHeaders} \subseteq response.headers

\* C9: normalizing the JSON text of a record that parse_gemini_response
\* returned yields the same seven values again, whichever path the first
\* normalization took.
C9_NormalizeIsIdempotent ==
  (GotReply /\ request.handler = "main") =>
    LET once == parse_gemini_response(upstream.text)
    IN once.exc = "none" =>
         LET twice == parse_gemini_response(JsonDumps(once.val))
         IN twice.exc = "none" /\ twice.val = once.val

\* C9, amended: when the JSON text of the record that parse_gemini_response
\* returned holds no json fence, normalizing that text yields the same seven
\* values again, also after the fallback path stored a raw text with braces
\* in analysis_summary.
C9_IdempotentWithoutFence ==
  (GotReply /\ request.handler = "main") =>
    LET once == parse_gemini_response(upstream.text)
    IN (once.exc = "none" /\ ~Contains(JsonDumps(once.val), FenceOpen)) =>
         LET twice == parse_gemini_response(JsonDumps(once.val))
         IN twice.exc = "none" /\ twice.val = once.val

\* C9 witness: a reply with a brace took the fallback path, its raw text is stored in
\* analysis_summary, and the JSON text of the record holds no json fence
C9_Witness ==
  /\ GotReply
  /\ request.handler = "main"
  /\ response.status = 200
  /\ Contains(upstream.text, <<"{">>)
  /\ ~JsonLoads(json_str(upstream.text)).ok
  /\ parse_gemini_response(upstream.text).val
       = FallbackResponse(upstream.text)
  /\ ~Contains(JsonDumps(parse_gemini_response(upstream.text).val), FenceOpen)

\* the candidate as the specification orders it; a fence that is never
\* closed runs to the end of the text
ClaimedCandidate(t) ==
  IF Contains(t, FenceOpen)
    THEN LET a == Find(t, FenceOpen, 0) + Len(FenceOpen)
             b == Find(t, Fence, a)
         IN IF b = -1 THEN Slice(t, a, Len(t)) ELSE Slice(t, a, b)
  ELSE IF Contains(t, <<"{">>) /\ RFind(t, <<"}">>) > Find(t, <<"{">>, 0)
    THEN Slice(t, Find(t, <<"{">>, 0), RFind(t, <<"}">>) + 1)
  ELSE t

\* C10: the candidate is the text between the first json fence and its
\* closing fence, else the span from the first { to the last }, else the
\* whole text; also for a fence that is never closed.  Compared up to the
\* whitespace around the candidate.
C10_CandidateOrder ==
  GotReply =>
    Strip(Candidate(upstream.text)) = Strip(ClaimedCandidate(upstream.text))

====
